---- MODULE Spec2Model ----
(***************************************************************************)
(* Model of scripts/load_data_duckdb.py: the DuckDB load of the NSE F&O    *)
(* dump into exchanges / instruments / expiries / trades.                  *)
(*                                                                         *)
(* One run of main() is: connect, create_duckdb_schema, then the           *)
(* statements of load_data_duckdb one after the other.  Every conn.execute *)
(* is its own committed statement, so each statement is one action and the *)
(* store keeps whatever the statements before a failure wrote.             *)
(*                                                                         *)
(* SQL values are modelled as options: NULL is the empty tuple and a       *)
(* non-null value v is <<v>>.  Tables are sets of rows (each has a primary *)
(* key) except raw_data, which has no key and is a bag.                    *)
(***************************************************************************)
EXTENDS Integers, Sequences, FiniteSets, Bags, TLC

\* ------------------------------------------------------------------ bounds

\* Most rows in the source file.
MaxRows == 2

\* Most runs of main() against the same store.
MaxRuns == 2

\* ------------------------------------------------------------- SQL values

NULL == <<>>

Val(v) == <<v>>

\* a = b as a join/filter condition: NULL on either side never matches.
SqlEq(a, b) == a # NULL /\ b # NULL /\ a = b

\* COALESCE(a, d)
Coalesce(a, d) == IF a = NULL THEN d ELSE a

\* ------------------------------------------------------------ source cells

\* The text of a date cell in '%d-%b-%Y' and the day it denotes (yyyymmdd).
DateValue == ("29-Aug-2019" :> 20190829) @@ ("01-Aug-2019" :> 20190801)

\* The text of a numeric cell and the number it denotes.
NumberValue == ("0" :> 0) @@ ("5" :> 5) @@ ("11000" :> 11000)

DecimalColumns == {"OPEN", "HIGH", "LOW", "CLOSE", "SETTLE_PR", "VAL_INLAKH"}

BigintColumns == {"CONTRACTS", "OPEN_INT", "CHG_IN_OI"}

MeasureColumns == DecimalColumns \cup BigintColumns

\* Scenario A's row: a future, no strike, no option type, every cell valid.
BaseRow ==
    [INSTRUMENT |-> "FUTIDX", SYMBOL |-> "NIFTY", EXPIRY_DT |-> "29-Aug-2019",
     STRIKE_PR |-> "", OPTION_TYP |-> "",
     OPEN |-> "11000", HIGH |-> "11000", LOW |-> "11000", CLOSE |-> "11000",
     SETTLE_PR |-> "11000", CONTRACTS |-> "5", VAL_INLAKH |-> "5",
     OPEN_INT |-> "5", CHG_IN_OI |-> "5", TIMESTAMP |-> "01-Aug-2019"]

\* Single cells that differ from BaseRow: another or a blank identity, a blank
\* or malformed date, a blank or non-numeric measure.
CellChanges ==
    {<<"INSTRUMENT", "OPTIDX">>, <<"INSTRUMENT", "">>, <<"SYMBOL", "">>,
     <<"EXPIRY_DT", "32-Foo-2019">>, <<"EXPIRY_DT", "">>,
     <<"TIMESTAMP", "2019-08-01">>, <<"TIMESTAMP", "">>,
     <<"OPEN", "abc">>, <<"OPEN_INT", "abc">>, <<"OPEN_INT", "">>}

\* BaseRow with every measure cell blank.
BlankMeasuresRow ==
    [c \in DOMAIN BaseRow |-> IF c \in MeasureColumns THEN "" ELSE BaseRow[c]]

\* Strike / option-type cells: absent, the explicit sentinels, a real option.
StrikeOptionCells ==
    {<<"", "">>, <<"0", "">>, <<"", "XX">>, <<"0", "XX">>,
     <<"11000", "CE">>, <<"", "CE">>}

\* The rows a source file is drawn from.
SourceRows ==
    {[BaseRow EXCEPT ![ch[1]] = ch[2]] : ch \in CellChanges}
    \cup {BlankMeasuresRow}
    \cup {[BaseRow EXCEPT !.STRIKE_PR = so[1], !.OPTION_TYP = so[2]] :
            so \in StrikeOptionCells}

RECURSIVE SeqToBag(_)
SeqToBag(s) ==
    IF s = <<>> THEN EmptyBag ELSE SeqToBag(Tail(s)) (+) SetToBag({Head(s)})

RECURSIVE SeqsUpTo(_)
SeqsUpTo(n) ==
    IF n = 0 THEN {<<>>}
    ELSE LET shorter == SeqsUpTo(n - 1)
         IN  shorter \cup {Append(s, r) : s \in shorter, r \in SourceRows}

\* The source files: bags of at most MaxRows rows.
SourceFiles == {SeqToBag(s) : s \in SeqsUpTo(MaxRows)}

\* ------------------------------------------------------------------ state

VARIABLES
    file,         \* the source file DATA_FILE: a bag of rows of text cells
    status,       \* "idle", "running", "done", "error" (a statement raised), "aborted"
    pc,           \* the statement the run is at
    runs,         \* how many runs of main() have started
    previous,     \* how the run before this one ended: [status, pc]
    tables,       \* names of the tables that exist in the store
    exchanges,    \* rows of exchanges
    instruments,  \* rows of instruments
    expiries,     \* rows of expiries
    trades,       \* rows of trades
    indexes,      \* names of the indexes that exist in the store
    raw_data      \* the connection's temp table: a bag of parsed records

vars == <<file, status, pc, runs, previous, tables, exchanges, instruments, expiries,
          trades, indexes, raw_data>>

store == <<tables, exchanges, instruments, expiries, trades, indexes>>

StepsIndexBeforeLoad ==
    <<"create_schema", "read_csv", "insert_instruments", "insert_expiries",
      "index_instrument", "index_date", "index_symbol_date", "insert_trades",
      "statistics">>

\* The statements of one run of main(), in program order.
Steps == <<"create_schema", "read_csv", "insert_instruments", "insert_expiries",
           "insert_trades", "index_instrument", "index_date",
           "index_symbol_date", "statistics">>

StepNo(p) == CHOOSE n \in 1..Len(Steps) : Steps[n] = p

\* The run is past statement p: p has completed in this run.
Past(p) == status = "done" \/ StepNo(pc) > StepNo(p)

\* --------------------------------------------------------- the CSV reader

\* read_csv_auto: a blank cell is NULL, any other cell is its text.
ReadCsvCell(cell) == IF cell = "" THEN NULL ELSE Val(cell)

\* strptime(v, '%d-%b-%Y') raises on text that is not in the format.
StrptimeRaises(v) == v # NULL /\ v[1] \notin DOMAIN DateValue

\* strptime(v, '%d-%b-%Y') where it does not raise: midnight of the day.
Strptime(v) ==
    IF v = NULL THEN NULL ELSE Val([date |-> DateValue[v[1]], time |-> 0])

\* TRY_CAST(ts AS DATE), CAST(ts AS DATE)
CastDate(ts) == IF ts = NULL THEN NULL ELSE Val(ts[1].date)

\* TRY_CAST(ts AS TIMESTAMP)
TryCastTimestamp(ts) == ts

\* TRY_CAST(v AS DECIMAL(p,2)): hundredths; NULL when v is not a number.
TryCastDecimal(v) ==
    IF v = NULL \/ v[1] \notin DOMAIN NumberValue THEN NULL
    ELSE Val(100 * NumberValue[v[1]])

\* TRY_CAST(v AS BIGINT): NULL when v is not a number.
TryCastBigint(v) ==
    IF v = NULL \/ v[1] \notin DOMAIN NumberValue THEN NULL
    ELSE Val(NumberValue[v[1]])

\* The SELECT list of CREATE TEMP TABLE raw_data, for one row of the file.
ParseRow(row) ==
    [instrument |-> ReadCsvCell(row.INSTRUMENT),
     symbol     |-> ReadCsvCell(row.SYMBOL),
     expiry_dt  |-> CastDate(Strptime(ReadCsvCell(row.EXPIRY_DT))),
     strike_pr  |-> TryCastDecimal(ReadCsvCell(row.STRIKE_PR)),
     option_typ |-> ReadCsvCell(row.OPTION_TYP),
     open       |-> TryCastDecimal(ReadCsvCell(row.OPEN)),
     high       |-> TryCastDecimal(ReadCsvCell(row.HIGH)),
     low        |-> TryCastDecimal(ReadCsvCell(row.LOW)),
     close      |-> TryCastDecimal(ReadCsvCell(row.CLOSE)),
     settle_pr  |-> TryCastDecimal(ReadCsvCell(row.SETTLE_PR)),
     contracts  |-> TryCastBigint(ReadCsvCell(row.CONTRACTS)),
     val_inlakh |-> TryCastDecimal(ReadCsvCell(row.VAL_INLAKH)),
     open_int   |-> TryCastBigint(ReadCsvCell(row.OPEN_INT)),
     chg_in_oi  |-> TryCastBigint(ReadCsvCell(row.CHG_IN_OI)),
     timestamp  |-> TryCastTimestamp(Strptime(ReadCsvCell(row.TIMESTAMP)))]

\* The statement raises when strptime raises on any row.
ReadCsvRaises(f) ==
    \E row \in DOMAIN f :
        \/ StrptimeRaises(ReadCsvCell(row.EXPIRY_DT))
        \/ StrptimeRaises(ReadCsvCell(row.TIMESTAMP))

\* SELECT ... FROM read_csv_auto(f): the parsed record of every row, copies kept.
ParsedRecords(f) ==
    [y \in {ParseRow(x) : x \in DOMAIN f} |->
        BagCardinality([x \in {z \in DOMAIN f : ParseRow(z) = y} |-> f[x]])]

\* A bag's elements in a sequence, copies repeated.
RECURSIVE BagToSeq(_)
BagToSeq(B) ==
    IF DOMAIN B = {} THEN <<>>
    ELSE LET x == CHOOSE z \in DOMAIN B : TRUE
             rest == [z \in (DOMAIN B) \ {x} |-> B[z]]
         IN  [j \in 1..B[x] |-> x] \o BagToSeq(rest)

\* A set's elements in a sequence.
SetToSeq(S) == BagToSeq(SetToBag(S))

\* ROW_NUMBER() OVER (): the rows numbered 1..n in an order the engine picks.
Numberings(rows) == {[j \in 1..Len(rows) |-> rows[p[j]]] : p \in Permutations(1..Len(rows))}

\* ------------------------------------------------------------ constraints

\* A row with the same primary key is in the table.
PrimaryKeyConflict(table, row, pk) == \E t \in table : t[pk] = row[pk]

\* A row equal on every column of the UNIQUE constraint is in the table
\* (a NULL in any of them equals nothing).
UniqueConflict(table, row, unique) ==
    unique # {} /\ \E t \in table : \A c \in unique : SqlEq(t[c], row[c])

Conflict(table, row, pk, unique) ==
    PrimaryKeyConflict(table, row, pk) \/ UniqueConflict(table, row, unique)

\* INSERT INTO table <rows>: raises on the first conflict, inserting nothing.
RECURSIVE Insert(_, _, _, _)
Insert(table, rows, pk, unique) ==
    IF rows = <<>> THEN [ok |-> TRUE, table |-> table]
    ELSE IF Conflict(table, Head(rows), pk, unique)
         THEN [ok |-> FALSE, table |-> table]
         ELSE LET rest == Insert(table \cup {Head(rows)}, Tail(rows), pk, unique)
              IN  IF rest.ok THEN rest ELSE [ok |-> FALSE, table |-> table]

\* INSERT INTO table <rows> ON CONFLICT DO NOTHING: a row in conflict with the
\* table, or with a row this statement inserted before it, is skipped.
RECURSIVE InsertOnConflictDoNothing(_, _, _, _)
InsertOnConflictDoNothing(table, rows, pk, unique) ==
    IF rows = <<>> THEN [ok |-> TRUE, table |-> table]
    ELSE InsertOnConflictDoNothing(
             IF Conflict(table, Head(rows), pk, unique)
             THEN table ELSE table \cup {Head(rows)},
             Tail(rows), pk, unique)

\* ----------------------------------------------------- create_duckdb_schema

SchemaTables == {"exchanges", "instruments", "expiries", "trades"}

\* The VALUES of the seed insert, in statement order.
ExchangeSeed ==
    <<[exchange_id |-> Val(1), exchange_code |-> Val("NSE"),
       exchange_name |-> Val("National Stock Exchange of India"),
       country |-> Val("India"), is_active |-> Val(TRUE)],
      [exchange_id |-> Val(2), exchange_code |-> Val("BSE"),
       exchange_name |-> Val("Bombay Stock Exchange"),
       country |-> Val("India"), is_active |-> Val(TRUE)],
      [exchange_id |-> Val(3), exchange_code |-> Val("MCX"),
       exchange_name |-> Val("Multi Commodity Exchange of India"),
       country |-> Val("India"), is_active |-> Val(TRUE)]>>

SeedExchangesPlain(table) ==
    Insert(table, ExchangeSeed, "exchange_id", {"exchange_code"})

\* INSERT INTO exchanges VALUES ... ON CONFLICT DO NOTHING
SeedExchanges(table) ==
    InsertOnConflictDoNothing(table, ExchangeSeed, "exchange_id", {"exchange_code"})

\* ------------------------------------------------- load_data_duckdb: queries

\* instrument LIKE '%OPT%' (NULL, hence not true, for a NULL instrument)
LikeOPT(instrument) ==
    instrument # NULL /\ instrument[1] \in {"OPTIDX", "OPTSTK"}

\* SELECT DISTINCT instrument, symbol FROM raw_data
DistinctInstruments(rd) == {<<r.instrument, r.symbol>> : r \in DOMAIN rd}

\* The instruments row the insert's SELECT makes of pair d, numbered n.
InstrumentRow(n, d) ==
    [instrument_id |-> Val(n), exchange_id |-> Val(1),
     instrument_type |-> d[1], symbol |-> d[2],
     series |-> Val(IF LikeOPT(d[1]) THEN "OPT" ELSE "FUT")]

RECURSIVE InsertOrReplace(_, _, _, _)
InsertOrReplace(table, rows, pk, unique) ==
    IF rows = <<>> THEN [ok |-> TRUE, table |-> table]
    ELSE LET row == Head(rows)
             kept == {t \in table : ~Conflict({t}, row, pk, unique)}
         IN  InsertOrReplace(kept \cup {row}, Tail(rows), pk, unique)

InstrumentsInsertOrReplace(table, rows) ==
    InsertOrReplace(table, rows, "instrument_id",
                    {"exchange_id", "instrument_type", "symbol"})

InstrumentsInsertPlain(table, rows) ==
    Insert(table, rows, "instrument_id",
           {"exchange_id", "instrument_type", "symbol"})

\* INSERT INTO instruments ... ON CONFLICT DO NOTHING
InstrumentsInsert(table, rows) ==
    InsertOnConflictDoNothing(table, rows, "instrument_id",
                              {"exchange_id", "instrument_type", "symbol"})

\* ... JOIN instruments i ON r.instrument = i.instrument_type AND r.symbol = i.symbol
JoinInstrument(r, i) ==
    SqlEq(r.instrument, i.instrument_type) /\ SqlEq(r.symbol, i.symbol)

\* SELECT DISTINCT instrument, symbol, expiry_dt, strike_pr, option_typ
\* FROM raw_data WHERE expiry_dt IS NOT NULL
DistinctContracts(rd) ==
    {[instrument |-> r.instrument, symbol |-> r.symbol, expiry_dt |-> r.expiry_dt,
      strike_pr |-> r.strike_pr, option_typ |-> r.option_typ] :
        r \in {x \in DOMAIN rd : x.expiry_dt # NULL}}

\* The contracts joined to their instruments: pairs <<contract, instrument>>.
ContractJoin(rd, instr) ==
    {<<d, i>> \in DistinctContracts(rd) \X instr : JoinInstrument(d, i)}

ExpiryRowNoDefault(n, di) ==
    [expiry_id |-> Val(n), instrument_id |-> di[2].instrument_id,
     expiry_date |-> di[1].expiry_dt,
     strike_price |-> di[1].strike_pr,
     option_type |-> di[1].option_typ]

\* The expiries row the insert's SELECT makes of a joined pair, numbered n.
ExpiryRow(n, di) ==
    [expiry_id |-> Val(n), instrument_id |-> di[2].instrument_id,
     expiry_date |-> di[1].expiry_dt,
     strike_price |-> Coalesce(di[1].strike_pr, Val(0)),
     option_type |-> Coalesce(di[1].option_typ, Val("XX"))]

\* INSERT INTO expiries ... ON CONFLICT DO NOTHING
ExpiriesInsert(table, rows) ==
    InsertOnConflictDoNothing(table, rows, "expiry_id",
        {"instrument_id", "expiry_date", "strike_price", "option_type"})

JoinExpiryNoDefault(r, i, ex) ==
    /\ SqlEq(ex.instrument_id, i.instrument_id)
    /\ SqlEq(ex.expiry_date, r.expiry_dt)
    /\ SqlEq(ex.strike_price, r.strike_pr)
    /\ SqlEq(ex.option_type, r.option_typ)

\* ... JOIN expiries ex ON ex.instrument_id = i.instrument_id AND ...
JoinExpiry(r, i, ex) ==
    /\ SqlEq(ex.instrument_id, i.instrument_id)
    /\ SqlEq(ex.expiry_date, r.expiry_dt)
    /\ SqlEq(Coalesce(ex.strike_price, Val(0)), Coalesce(r.strike_pr, Val(0)))
    /\ SqlEq(Coalesce(ex.option_type, Val("XX")), Coalesce(r.option_typ, Val("XX")))

\* The triples <<r, i, ex>> the trade insert's FROM ... WHERE admits.
TradeMatches(rd, instr, exp) ==
    {j \in (DOMAIN rd) \X instr \X exp :
        /\ JoinInstrument(j[1], j[2])
        /\ JoinExpiry(j[1], j[2], j[3])
        /\ j[1].timestamp # NULL}

TradeJoinDistinct(rd, instr, exp) == SetToBag(TradeMatches(rd, instr, exp))

\* An expiries row of NULLs: the right side of an outer join that found none.
NoExpiry ==
    [expiry_id |-> NULL, instrument_id |-> NULL, expiry_date |-> NULL,
     strike_price |-> NULL, option_type |-> NULL]

TradeJoinOuter(rd, instr, exp) ==
    LET inner == TradeMatches(rd, instr, exp)
        outer == {<<r, i, NoExpiry>> : <<r, i>> \in
                    {ri \in (DOMAIN rd) \X instr :
                        /\ JoinInstrument(ri[1], ri[2])
                        /\ ri[1].timestamp # NULL
                        /\ ~ \E ex \in exp : <<ri[1], ri[2], ex>> \in inner}}
    IN  [j \in inner \cup outer |-> rd[j[1]]]

\* FROM raw_data r JOIN instruments i ... JOIN expiries ex ... WHERE
\* r.timestamp IS NOT NULL: one result per copy of a record and match.
TradeJoin(rd, instr, exp) ==
    [j \in TradeMatches(rd, instr, exp) |-> rd[j[1]]]

TradeRowNoDefault(n, j) ==
    [trade_id |-> Val(n), expiry_id |-> j[3].expiry_id,
     instrument_id |-> j[2].instrument_id,
     trade_date |-> CastDate(j[1].timestamp),
     open |-> Coalesce(j[1].open, Val(0)),
     high |-> Coalesce(j[1].high, Val(0)),
     low |-> Coalesce(j[1].low, Val(0)),
     close |-> Coalesce(j[1].close, Val(0)),
     settle_price |-> Coalesce(j[1].settle_pr, Val(0)),
     contracts |-> Coalesce(j[1].contracts, Val(0)),
     value_in_lakh |-> Coalesce(j[1].val_inlakh, Val(0)),
     open_interest |-> j[1].open_int,
     change_in_oi |-> Coalesce(j[1].chg_in_oi, Val(0)),
     timestamp |-> j[1].timestamp]

\* The trades row the insert's SELECT makes of a join result, numbered n.
TradeRow(n, j) ==
    [trade_id |-> Val(n), expiry_id |-> j[3].expiry_id,
     instrument_id |-> j[2].instrument_id,
     trade_date |-> CastDate(j[1].timestamp),
     open |-> Coalesce(j[1].open, Val(0)),
     high |-> Coalesce(j[1].high, Val(0)),
     low |-> Coalesce(j[1].low, Val(0)),
     close |-> Coalesce(j[1].close, Val(0)),
     settle_price |-> Coalesce(j[1].settle_pr, Val(0)),
     contracts |-> Coalesce(j[1].contracts, Val(0)),
     value_in_lakh |-> Coalesce(j[1].val_inlakh, Val(0)),
     open_interest |-> Coalesce(j[1].open_int, Val(0)),
     change_in_oi |-> Coalesce(j[1].chg_in_oi, Val(0)),
     timestamp |-> j[1].timestamp]

\* INSERT INTO trades ... (no ON CONFLICT; trade_id is the only constraint)
TradesInsert(table, rows) == Insert(table, rows, "trade_id", {})

\* ---------------------------------------------------------------- actions

Init ==
    /\ file \in SourceFiles
    /\ status = "idle"
    /\ pc = "create_schema"
    /\ runs = 0
    /\ previous = [status |-> "idle", pc |-> "create_schema"]
    /\ tables = {}
    /\ exchanges = {}
    /\ instruments = {}
    /\ expiries = {}
    /\ trades = {}
    /\ indexes = {}
    /\ raw_data = EmptyBag

\* The statement completed: on to the next one.
Proceed ==
    /\ pc' = Steps[StepNo(pc) + 1]
    /\ UNCHANGED <<status, runs, previous>>

\* The run ends at the current statement; the connection and its temp table go.
EndRun(how) ==
    /\ status' = how
    /\ raw_data' = EmptyBag
    /\ UNCHANGED <<pc, runs, previous>>

\* The statement raised: it wrote nothing, main() logs and re-raises.
Raise ==
    /\ EndRun("error")
    /\ UNCHANGED <<file, store>>

\* main(): a new connection to DB_FILE (no temp tables), then the statements.
Main ==
    /\ status # "running"
    /\ runs < MaxRuns
    /\ runs' = runs + 1
    /\ previous' = [status |-> status, pc |-> pc]
    /\ status' = "running"
    /\ pc' = "create_schema"
    /\ raw_data' = EmptyBag
    /\ UNCHANGED <<file, store>>

\* create_duckdb_schema: four CREATE TABLE IF NOT EXISTS and the seed insert.
CreateSchema ==
    /\ status = "running" /\ pc = "create_schema"
    /\ LET seeded == SeedExchanges(exchanges)
       IN  IF seeded.ok
           THEN /\ tables' = tables \cup SchemaTables
                /\ exchanges' = seeded.table
                /\ Proceed
                /\ UNCHANGED <<file, instruments, expiries, trades, indexes, raw_data>>
           ELSE /\ tables' = tables \cup {"exchanges"}
                /\ EndRun("error")
                /\ UNCHANGED <<file, exchanges, instruments, expiries, trades, indexes>>

\* CREATE TEMP TABLE raw_data AS SELECT ... FROM read_csv_auto(DATA_FILE)
ReadCsv ==
    /\ status = "running" /\ pc = "read_csv"
    /\ IF ReadCsvRaises(file)
       THEN Raise
       ELSE /\ raw_data' = ParsedRecords(file)
            /\ Proceed
            /\ UNCHANGED <<file, store>>

\* INSERT INTO instruments SELECT ROW_NUMBER() OVER (), 1, ... ON CONFLICT DO NOTHING
InsertInstruments ==
    /\ status = "running" /\ pc = "insert_instruments"
    /\ \E order \in Numberings(SetToSeq(DistinctInstruments(raw_data))) :
         LET rows == [n \in 1..Len(order) |-> InstrumentRow(n, order[n])]
             res == InstrumentsInsert(instruments, rows)
         IN  IF res.ok
             THEN /\ instruments' = res.table
                  /\ Proceed
                  /\ UNCHANGED <<file, tables, exchanges, expiries, trades,
                                 indexes, raw_data>>
             ELSE Raise

\* INSERT INTO expiries SELECT ROW_NUMBER() OVER (), ... ON CONFLICT DO NOTHING
InsertExpiries ==
    /\ status = "running" /\ pc = "insert_expiries"
    /\ \E order \in Numberings(SetToSeq(ContractJoin(raw_data, instruments))) :
         LET rows == [n \in 1..Len(order) |-> ExpiryRow(n, order[n])]
             res == ExpiriesInsert(expiries, rows)
         IN  IF res.ok
             THEN /\ expiries' = res.table
                  /\ Proceed
                  /\ UNCHANGED <<file, tables, exchanges, instruments, trades,
                                 indexes, raw_data>>
             ELSE Raise

\* INSERT INTO trades SELECT ROW_NUMBER() OVER (), ...
InsertTrades ==
    /\ status = "running" /\ pc = "insert_trades"
    /\ \E order \in Numberings(BagToSeq(TradeJoin(raw_data, instruments, expiries))) :
         LET rows == [n \in 1..Len(order) |-> TradeRow(n, order[n])]
             res == TradesInsert(trades, rows)
         IN  IF res.ok
             THEN /\ trades' = res.table
                  /\ Proceed
                  /\ UNCHANGED <<file, tables, exchanges, instruments, expiries,
                                 indexes, raw_data>>
             ELSE Raise

\* CREATE INDEX name ON trades(...): raises when the index exists.
CreateIndex(step, name) ==
    /\ status = "running" /\ pc = step
    /\ IF name \in indexes
       THEN Raise
       ELSE /\ indexes' = indexes \cup {name}
            /\ Proceed
            /\ UNCHANGED <<file, tables, exchanges, instruments, expiries,
                           trades, raw_data>>

IndexInstrument == CreateIndex("index_instrument", "idx_trades_instrument")

IndexDate == CreateIndex("index_date", "idx_trades_date")

IndexSymbolDate == CreateIndex("index_symbol_date", "idx_trades_symbol_date")

\* The three SELECT COUNT(*), "Data loading complete!", conn.close().
Statistics ==
    /\ status = "running" /\ pc = "statistics"
    /\ EndRun("done")
    /\ UNCHANGED <<file, store>>

\* The run is cut short between two statements after the schema exists (the
\* process dies, the store becomes unreachable); what the statements so far
\* wrote stays.
Abort ==
    /\ status = "running" /\ pc # "create_schema"
    /\ EndRun("aborted")
    /\ UNCHANGED <<file, store>>

Next ==
    \/ Main
    \/ CreateSchema
    \/ ReadCsv
    \/ InsertInstruments
    \/ InsertExpiries
    \/ InsertTrades
    \/ IndexInstrument
    \/ IndexDate
    \/ IndexSymbolDate
    \/ Statistics
    \/ Abort

Spec == Init /\ [][Next]_vars

\* ----------------------------------------------------------- properties

\* This run is the first one on the store, it is still connected, and its
\* statement p has completed.
FirstRunPast(p) == runs = 1 /\ status = "running" /\ StepNo(pc) > StepNo(p)

\* The trades columns holding measures, and the source column of each.
MeasureSource ==
    [open |-> "OPEN", high |-> "HIGH", low |-> "LOW", close |-> "CLOSE",
     settle_price |-> "SETTLE_PR", contracts |-> "CONTRACTS",
     value_in_lakh |-> "VAL_INLAKH", open_interest |-> "OPEN_INT",
     change_in_oi |-> "CHG_IN_OI"]

\* The raw_data column of each trades measure.
MeasureRaw ==
    [open |-> "open", high |-> "high", low |-> "low", close |-> "close",
     settle_price |-> "settle_pr", contracts |-> "contracts",
     value_in_lakh |-> "val_inlakh", open_interest |-> "open_int",
     change_in_oi |-> "chg_in_oi"]

\* What a parsed record looks like as a trade: its identity, its contract
\* with the sentinels for an absent strike / option type, its measures with
\* 0 for an absent one, its timestamp.
TradeImage(r) ==
    [instrument |-> r.instrument, symbol |-> r.symbol, expiry_dt |-> r.expiry_dt,
     strike |-> IF r.strike_pr = NULL THEN Val(0) ELSE r.strike_pr,
     option |-> IF r.option_typ = NULL THEN Val("XX") ELSE r.option_typ,
     measures |-> [m \in DOMAIN MeasureRaw |->
                     IF r[MeasureRaw[m]] = NULL THEN Val(0) ELSE r[MeasureRaw[m]]],
     timestamp |-> r.timestamp]

\* The trades rows that are record r's: they point at r's instrument and r's
\* contract and carry r's measures and timestamp.
TradesOf(r) ==
    LET im == TradeImage(r)
    IN  {t \in trades :
           /\ t.timestamp # NULL /\ t.timestamp = im.timestamp
           /\ \A m \in DOMAIN MeasureRaw : t[m] = im.measures[m]
           /\ \E i \in instruments, ex \in expiries :
                /\ SqlEq(i.instrument_id, t.instrument_id)
                /\ SqlEq(ex.expiry_id, t.expiry_id)
                /\ SqlEq(i.instrument_type, im.instrument)
                /\ SqlEq(i.symbol, im.symbol)
                /\ SqlEq(ex.instrument_id, i.instrument_id)
                /\ SqlEq(ex.expiry_date, im.expiry_dt)
                /\ ex.strike_price = im.strike
                /\ ex.option_type = im.option}

\* Identity and expiry date are all there.
HasIdentity(r) == r.instrument # NULL /\ r.symbol # NULL /\ r.expiry_dt # NULL

\* How many records of bag rd, copies counted, are in set S.
CopiesAmong(rd, S) == BagCardinality([x \in S \cap DOMAIN rd |-> rd[x]])

\* The records of set S that look like r as a trade.
Like(r, S) == {z \in S : TradeImage(z) = TradeImage(r)}

\* C1. Join completeness: every trades row has exactly one instruments row
\* with its instrument_id and exactly one expiries row with its expiry_id.
JoinCompleteness ==
    \A t \in trades :
        /\ Cardinality({i \in instruments : SqlEq(i.instrument_id, t.instrument_id)}) = 1
        /\ Cardinality({ex \in expiries : SqlEq(ex.expiry_id, t.expiry_id)}) = 1

JoinCompletenessWitness ==
    /\ status = "done"
    /\ Cardinality(trades) >= 2
    /\ Cardinality(instruments) >= 2

\* C2. Idempotent dimension insert: in a run that follows a run which
\* completed both dimension inserts, the instrument insert and the expiry
\* insert raise no error and leave the number of instruments rows and of
\* expiries rows as it was.
IdempotentDimensionInsert ==
    [][(/\ status = "running"
        /\ pc \in {"insert_instruments", "insert_expiries"}
        /\ previous.status # "idle"
        /\ StepNo(previous.pc) > StepNo("insert_expiries"))
       => /\ status' # "error"
          /\ Cardinality(instruments') = Cardinality(instruments)
          /\ Cardinality(expiries') = Cardinality(expiries)]_vars

IdempotentDimensionInsertWitness ==
    /\ runs = 2 /\ status = "running" /\ pc = "insert_trades"
    /\ previous.status = "done"
    /\ Cardinality(instruments) >= 2
    /\ expiries # {}

\* The record is bound to a trade: identity, expiry date and timestamp are there.
Loadable(r) == HasIdentity(r) /\ r.timestamp # NULL

\* C3 as stated. Fact completeness: after a load into a fresh store every
\* parsed record with non-null instrument, symbol and expiry date has exactly
\* one trades row, whatever its other fields are.
FactCompletenessAsStated ==
    FirstRunPast("insert_trades") =>
        \A r \in DOMAIN raw_data :
            HasIdentity(r) =>
                Cardinality(TradesOf(r)) =
                    CopiesAmong(raw_data, Like(r, {z \in DOMAIN raw_data : HasIdentity(z)}))

\* C3, amended. After a load into a fresh store every parsed record with
\* non-null instrument, symbol, expiry date and timestamp has exactly one
\* trades row, whatever its measures are; any other record has none, and
\* trades holds no other rows.
FactCompleteness ==
    FirstRunPast("insert_trades") =>
        LET loadable == {z \in DOMAIN raw_data : Loadable(z)}
        IN  /\ \A r \in DOMAIN raw_data :
                  Cardinality(TradesOf(r)) =
                      IF Loadable(r) THEN CopiesAmong(raw_data, Like(r, loadable)) ELSE 0
            /\ Cardinality(trades) = CopiesAmong(raw_data, loadable)

FactCompletenessWitness ==
    /\ FirstRunPast("insert_trades")
    /\ \E r \in DOMAIN raw_data : Loadable(r) /\ r.open = NULL /\ TradesOf(r) # {}
    /\ \E r \in DOMAIN raw_data : HasIdentity(r) /\ r.timestamp = NULL

\* C4. An EXPIRY_DT that is not in the DD-Mon-YYYY format does not abort the
\* load: with every TIMESTAMP cell blank or well formed, the statement that
\* reads the file never raises.
UnparseableExpiryRecovered ==
    (\A row \in DOMAIN file : row.TIMESTAMP \in DOMAIN DateValue \cup {""})
        => ~(status = "error" /\ pc = "read_csv")

\* C5. Default-not-null: every measure of every trades row is non-null, and
\* the row carries the measures of a source row: the number in the cell where
\* the cell is a number, 0 where it is blank or not a number.
DefaultNotNull ==
    \A t \in trades :
        /\ \A m \in DOMAIN MeasureSource : t[m] # NULL
        /\ \E row \in DOMAIN file :
              \A m \in DOMAIN MeasureSource :
                  LET cell == row[MeasureSource[m]]
                      scale == IF MeasureSource[m] \in DecimalColumns THEN 100 ELSE 1
                  IN  t[m] = IF cell \in DOMAIN NumberValue
                             THEN Val(scale * NumberValue[cell]) ELSE Val(0)

DefaultNotNullWitness ==
    /\ \E row \in DOMAIN file : row.OPEN_INT = "" /\ row.OPEN = "11000"
    /\ \E row \in DOMAIN file : row.OPEN = "abc"
    /\ \E t \in trades : t.open_interest = Val(0) /\ t.open = Val(1100000)
    /\ \E t \in trades : t.open = Val(0) /\ t.open_interest = Val(5)

\* C6. Instruments come only from records with non-null identity: after the
\* instrument insert every instruments row has a non-null instrument_type and
\* symbol, and the (instrument_type, symbol) pairs in instruments are the
\* pairs of the parsed records in which both are non-null.
InstrumentsNonNullIdentity ==
    FirstRunPast("insert_instruments") =>
        /\ \A i \in instruments : i.instrument_type # NULL /\ i.symbol # NULL
        /\ {<<i.instrument_type, i.symbol>> : i \in instruments} =
           {<<r.instrument, r.symbol>> :
               r \in {x \in DOMAIN raw_data : x.instrument # NULL /\ x.symbol # NULL}}

\* The expiries rows record r resolves to: same instrument, same date, r's
\* strike (0 for none) and r's option type ('XX' for none).
ExpiriesOf(r) ==
    {e \in expiries :
        /\ \E i \in instruments :
              /\ SqlEq(i.instrument_type, r.instrument)
              /\ SqlEq(i.symbol, r.symbol)
              /\ SqlEq(e.instrument_id, i.instrument_id)
        /\ SqlEq(e.expiry_date, r.expiry_dt)
        /\ e.strike_price = (IF r.strike_pr = NULL THEN Val(0) ELSE r.strike_pr)
        /\ e.option_type = (IF r.option_typ = NULL THEN Val("XX") ELSE r.option_typ)}

\* The record names no contract of its own, or names the sentinels.
IsFuture(r) ==
    /\ r.strike_pr \in {NULL, Val(0)}
    /\ r.option_typ \in {NULL, Val("XX")}

\* C7. Futures sentinel: the expiry insert never raises; after it no expiries
\* row has a NULL strike_price or option_type, every record with identity and
\* expiry date resolves to exactly one expiries row (strike 0 for a null
\* strike, 'XX' for a null option type), and the records of one instrument and
\* date without strike / option type, or with 0 and 'XX', resolve to the same one.
FuturesSentinel ==
    /\ ~(status = "error" /\ pc = "insert_expiries")
    /\ (status = "running" /\ StepNo(pc) > StepNo("insert_expiries")) =>
        /\ \A e \in expiries : e.strike_price # NULL /\ e.option_type # NULL
        /\ \A r \in DOMAIN raw_data :
              HasIdentity(r) => Cardinality(ExpiriesOf(r)) = 1
        /\ \A r1, r2 \in DOMAIN raw_data :
              (/\ HasIdentity(r1) /\ HasIdentity(r2)
               /\ IsFuture(r1) /\ IsFuture(r2)
               /\ r1.instrument = r2.instrument /\ r1.symbol = r2.symbol
               /\ r1.expiry_dt = r2.expiry_dt)
              => ExpiriesOf(r1) = ExpiriesOf(r2)

FuturesSentinelWitness ==
    /\ status = "running" /\ StepNo(pc) > StepNo("insert_expiries")
    /\ \E r1, r2 \in DOMAIN raw_data :
          /\ HasIdentity(r1) /\ HasIdentity(r2)
          /\ r1.strike_pr = NULL /\ r1.option_typ = NULL
          /\ r2.strike_pr = Val(0) /\ r2.option_typ = Val("XX")
          /\ r1.instrument = r2.instrument /\ r1.symbol = r2.symbol
    /\ Cardinality(expiries) = 1

AfterDimensions ==
    {"insert_trades", "index_instrument", "index_date", "index_symbol_date",
     "statistics"}

\* C9. Re-run is a recovery mechanism: the run that follows a first run
\* aborted after the dimension inserts, the trade insert or an index creation
\* raises no error.
RerunRecovers ==
    (/\ runs = 2
     /\ previous.status = "aborted"
     /\ previous.pc \in AfterDimensions)
    => status # "error"

\* C10. Schema creation and seeding are idempotent: create_duckdb_schema never
\* raises, and after each invocation exchanges holds exactly three rows, with
\* ids 1, 2, 3 and codes NSE, BSE, MCX.
SchemaIdempotent ==
    /\ ~(status = "error" /\ pc = "create_schema")
    /\ (runs >= 1 /\ pc # "create_schema") =>
        /\ Cardinality(exchanges) = 3
        /\ {<<e.exchange_id, e.exchange_code>> : e \in exchanges} =
           {<<Val(1), Val("NSE")>>, <<Val(2), Val("BSE")>>, <<Val(3), Val("MCX")>>}
        /\ SchemaTables \subseteq tables

SchemaIdempotentWitness ==
    /\ runs = 2 /\ status = "running" /\ pc = "read_csv"
    /\ Cardinality(exchanges) = 3

\* The phase of the pipeline each statement of load_data_duckdb belongs to:
\* 1 parse, 2 instrument insert, 3 expiry insert, 4 trade insert, 5 index
\* creation (0 before the load, 6 after it).
Phase(p) ==
    CASE p = "create_schema" -> 0
      [] p = "read_csv" -> 1
      [] p = "insert_instruments" -> 2
      [] p = "insert_expiries" -> 3
      [] p = "insert_trades" -> 4
      [] p \in {"index_instrument", "index_date", "index_symbol_date"} -> 5
      [] p = "statistics" -> 6

TradeIndexes == {"idx_trades_instrument", "idx_trades_date", "idx_trades_symbol_date"}

\* C11 as stated. Post-load index creation: in every run no index on trades
\* exists while the trade insert executes.
NoIndexDuringTradeInsert ==
    (status = "running" /\ pc = "insert_trades") => indexes = {}

\* C11, amended. In every run the phases occur in the order parse, instrument
\* insert, expiry insert, trade insert, index creation, none skipped; an index
\* is created only by a statement that follows the run's trade insert; and in
\* the first run on a fresh store no index exists until the trade insert has
\* completed (a later run finds the indexes earlier runs left).
PostLoadIndexCreation ==
    [][/\ (status = "running" /\ status' = "running") =>
              /\ Phase(pc') >= Phase(pc)
              /\ Phase(pc') <= Phase(pc) + 1
       /\ (status # "running" /\ status' = "running") => Phase(pc') = 0
       /\ indexes \subseteq indexes'
       /\ indexes' # indexes =>
              /\ status = "running" /\ Phase(pc) = 5
              /\ indexes' \subseteq TradeIndexes
       /\ (runs' = 1 /\ status' = "running" /\ Phase(pc') <= 4) => indexes' = {}
      ]_vars

PostLoadIndexCreationWitness ==
    /\ runs = 1 /\ status = "running" /\ pc = "statistics"
    /\ indexes = TradeIndexes
    /\ trades # {}

\* C12. Append-only load: over any sequence of runs, ended or aborted, no row
\* of trades, instruments or expiries is ever modified or deleted; a step
\* changes at most its own target table, and only by adding rows; the parsing
\* step changes none of the four tables.
AppendOnly ==
    [][/\ trades \subseteq trades'
       /\ instruments \subseteq instruments'
       /\ expiries \subseteq expiries'
       /\ exchanges \subseteq exchanges'
       /\ trades' # trades => status = "running" /\ pc = "insert_trades"
       /\ instruments' # instruments => status = "running" /\ pc = "insert_instruments"
       /\ expiries' # expiries => status = "running" /\ pc = "insert_expiries"
       /\ exchanges' # exchanges => status = "running" /\ pc = "create_schema"
       /\ (status = "running" /\ pc = "read_csv") =>
              UNCHANGED <<exchanges, instruments, expiries, trades>>
      ]_vars

AppendOnlyWitness ==
    /\ runs = 2 /\ status = "done"
    /\ previous.status = "aborted" /\ previous.pc = "insert_trades"
    /\ Cardinality(instruments) >= 2
    /\ Cardinality(trades) >= 2

====
